---- MODULE Spec2Model ----
(***************************************************************************)
(* Mystery Order Email Automation: the email-open tracking subsystem.      *)
(*                                                                         *)
(* The tracking sheet ("Mystery Email Tracking") is a shared table.  Web   *)
(* app executions of doGet (one per callback request) run concurrently     *)
(* with each other and with a batch run of main(); no lock is taken        *)
(* anywhere in the source, so every Spreadsheet service call is one atomic *)
(* step and the calls of different executions interleave.                  *)
(***************************************************************************)
EXTENDS Integers, Sequences, FiniteSets, TLC

\* ------------------------------------------------------------------ bounds
NumHandlers == 2   \* concurrent web app executions of doGet
MaxHits == 4       \* callback requests for recorded tokens in one behaviour
MaxIssue == 2      \* UUIDs generated in one behaviour
MaxClock == 1      \* the clock counts the days 0..MaxClock

\* The statistics are computed over every sheet of up to MaxRecords records
\* with up to MaxViews views each.
MaxRecords == 3
MaxViews == 3

Handlers == 1..NumHandlers
Tokens == 1..MaxIssue

\* ------------------------------------------------------- values of the code
NoId == 0          \* e.parameter.id is undefined
EmptyId == -1      \* e.parameter.id is ''
NoDate == -1       \* the '' of an Open Date cell
UnknownToken == MaxIssue + 1   \* a UUID Utilities.getUuid never returns here
NoAction == "<undefined>"
NoRow == 0         \* the loop of recordEmailOpen found no row

Gif == "image/gif GIF89a 1x1"
ErrorText == "text/plain Error"
NoResp == "<none>"

\* The header row recordTrackingId appends to a new sheet.
HeaderRow ==
  [token |-> -2, email |-> <<"E", "m", "a", "i", "l">>, sellerId |-> "Seller ID", sendDate |-> NoDate,
   openDate |-> NoDate, opened |-> "Opened", views |-> 0]

\* The record without its Send Date.
NewRecordUndated(trackingId, email, sellerId, now) ==
  [token |-> trackingId, email |-> email, sellerId |-> sellerId, sendDate |-> NoDate,
   openDate |-> NoDate, opened |-> "No", views |-> 0]

\* The record recordTrackingId appends.
NewRecord(trackingId, email, sellerId, now) ==
  [token |-> trackingId, email |-> email, sellerId |-> sellerId, sendDate |-> now,
   openDate |-> NoDate, opened |-> "No", views |-> 0]

\* The row written at getLastRow() instead of below it.
AppendRowAtLast(s, row) == IF s = <<>> THEN <<row>> ELSE [s EXCEPT ![Len(s)] = row]

\* The row appended twice.
AppendRowTwice(s, row) == Append(Append(s, row), row)

\* A row inserted below the first row instead of appended after the last.
AppendRowOnTop(s, row) == IF s = <<>> THEN <<row>> ELSE <<s[1], row>> \o Tail(s)

\* Sheet.appendRow: the row goes after the last row of the sheet.
AppendRow(s, row) == Append(s, row)

\* The Open Date written one row too low, getRange(i + 2, 5).
SetOpenDateCellBelow(s, r, now) ==
  IF r < Len(s) THEN [s EXCEPT ![r + 1].openDate = now] ELSE s

\* The views written one column too far left, getRange(i + 1, 4).
SetViewsCellSendDate(s, r, v) == [s EXCEPT ![r].sendDate = v]

\* Range.setValue on one cell of sheet row r (1-based, as getRange).
SetOpenDateCell(s, r, now) == [s EXCEPT ![r].openDate = now]
SetOpenedCell(s, r) == [s EXCEPT ![r].opened = "Yes"]
SetViewsCell(s, r, v) == [s EXCEPT ![r].views = v]

\* JavaScript truthiness of e.parameter.id.
Truthy(id) == id # NoId /\ id # EmptyId

\* The guard without its test of action.
IsOpenRequestAnyAction(e) == Truthy(e.id)

\* doGet's guard: action === 'open' && trackingId.
IsOpenRequest(e) == e.action = "open" /\ Truthy(e.id)

\* data[i][6] || 1, as getEmailStats has it.
ViewsOrOne(v) == IF v = 0 THEN 1 ELSE v

\* data[i][6] || 0
ViewsOrZero(v) == IF v = 0 THEN 0 ELSE v

\* The loop with its index used after a search that found nothing.
FindRowOrLast(data, trackingId) ==
  LET hitsAt == {i \in 1..(Len(data) - 1) : data[i + 1].token = trackingId}
  IN IF hitsAt = {}
     THEN IF Len(data) >= 2 THEN Len(data) - 1 ELSE NoRow
     ELSE CHOOSE i \in hitsAt : \A j \in hitsAt : i <= j

\* The loop of recordEmailOpen over data (data[0] is sheet row 1): the first
\* 0-based index i >= 1 with data[i][0] === trackingId, or NoRow.
FindRow(data, trackingId) ==
  LET hitsAt == {i \in 1..(Len(data) - 1) : data[i + 1].token = trackingId}
  IN IF hitsAt = {} THEN NoRow ELSE CHOOSE i \in hitsAt : \A j \in hitsAt : i <= j

\* The response when the failure reaches doGet's own catch.
RespOfDoGetCatch == ErrorText

\* The response of doGet after recordEmailOpen caught and logged a failure of a
\* Spreadsheet call: recordEmailOpen returns normally, doGet goes on to the GIF.
RespAfterStoreError == Gif

\* ----------------------------------------------------------- the row source
\* Cell texts that the code takes apart are sequences of characters.
AddrA == <<"a", "@", "x", ".", "c">>
AddrB == <<"b", "@", "x", ".", "c">>
TwoAddrs == AddrA \o <<",", " ">> \o AddrB
BadAddr == <<"a", "x">>

\* COLUMNS.REPORT: a row needs more than this many cells.
ReportColumn == 4

\* The rows the Mystery Order sheet can hold.
RowInputs ==
  {[cols |-> 3, sellerId |-> "S1", sellerEmail |-> AddrA, result |-> "passed"],
   [cols |-> 5, sellerId |-> "S1", sellerEmail |-> <<>>, result |-> "passed"],
   [cols |-> 5, sellerId |-> "S1", sellerEmail |-> AddrA, result |-> ""],
   [cols |-> 5, sellerId |-> "S1", sellerEmail |-> AddrA, result |-> "pending"],
   [cols |-> 5, sellerId |-> "S1", sellerEmail |-> AddrA, result |-> "Passed"],
   [cols |-> 5, sellerId |-> "", sellerEmail |-> TwoAddrs, result |-> "failed"],
   [cols |-> 5, sellerId |-> "S2", sellerEmail |-> BadAddr, result |-> "FAILED"]}

NoRowData == [cols |-> 0, sellerId |-> "", sellerEmail |-> <<>>, result |-> ""]

\* String.prototype.toLowerCase on the result texts above.
ToLowerCase(t) ==
  CASE t = "Passed" -> "passed"
    [] t = "FAILED" -> "failed"
    [] OTHER -> t

\* The rows whose handling reaches the tracking sheet.
TrackedRows ==
  {r \in RowInputs : /\ r.cols > ReportColumn
                      /\ r.sellerEmail # <<>>
                      /\ ToLowerCase(r.result) \in {"passed", "failed"}}

\* Those of them with the one address a@x.c.
PlainRows == {r \in TrackedRows : r.sellerEmail = AddrA}

\* String.prototype.split(','): the pieces between the commas.
RECURSIVE SplitComma(_)
SplitComma(t) ==
  LET commas == {p \in 1..Len(t) : t[p] = ","} IN
  IF commas = {} THEN <<t>>
  ELSE LET p == CHOOSE q \in commas : \A r \in commas : q <= r
       IN <<SubSeq(t, 1, p - 1)>> \o SplitComma(SubSeq(t, p + 1, Len(t)))

\* String.prototype.trim
RECURSIVE Trim(_)
Trim(t) ==
  IF t = <<>> THEN t
  ELSE IF Head(t) = " " THEN Trim(Tail(t))
  ELSE IF t[Len(t)] = " " THEN Trim(SubSeq(t, 1, Len(t) - 1))
  ELSE t

\* data.sellerEmail.split(',').map(email => email.trim())
EmailAddresses(sellerEmail) ==
  LET parts == SplitComma(sellerEmail) IN [k \in 1..Len(parts) |-> Trim(parts[k])]

\* isValidEmail: /^[^\s@]+@[^\s@]+\.[^\s@]+$/
IsValidEmail(t) ==
  /\ t # <<>>
  /\ \A p \in 1..Len(t) : t[p] # " "
  /\ \E a \in 2..Len(t) :
       /\ t[a] = "@"
       /\ \A p \in 1..Len(t) : t[p] = "@" => p = a
       /\ \E d \in (a + 2)..(Len(t) - 1) : t[d] = "."

\* ------------------------------------------------------------ the statistics
\* oneWeekAgo.setDate(oneWeekAgo.getDate() - 7): the clock counts days.
WeekDays == 7

\* The quotient cut off after two decimals instead of rounded.
ToFixed2Floor(num, den) == (100 * num) \div den

\* (num / den).toFixed(2), in hundredths, rounded half up.
ToFixed2(num, den) == (2 * 100 * num + den) \div (2 * den)

\* The first open counted on top of the views.
ViewsPlusOne(v) == v + 1

\* The window with >= in place of >.
InLastWeekInclusive(sendDate, oneWeekAgo) == sendDate >= oneWeekAgo

\* sendDate > oneWeekAgo
InLastWeek(sendDate, oneWeekAgo) == sendDate > oneWeekAgo

\* Number(data[i][6] || 1)
ViewsOrOneView(v) == IF v = 0 THEN 1 ELSE v

RECURSIVE TotalViewsAllRows(_, _)
\* The sum without the test of Opened.
TotalViewsAllRows(data, i) ==
  IF i = 0 THEN 0
  ELSE TotalViewsAllRows(data, i - 1) + ViewsOrOneView(data[i + 1].views)

RECURSIVE TotalViews(_, _)
\* totalViews after the loop over data[1..i].
TotalViews(data, i) ==
  IF i = 0 THEN 0
  ELSE TotalViews(data, i - 1)
       + (IF data[i + 1].opened = "Yes" THEN ViewsOrOneView(data[i + 1].views) ELSE 0)

\* The test with < in place of <=.
NoDataStrict(data) == Len(data) < 1

\* data.length <= 1: nothing below the header row.
NoData(data) == Len(data) <= 1

ErrorReport(message) ==
  [kind |-> "error", error |-> message, totalEmails |-> 0, openedEmails |-> 0,
   openRate |-> 0, totalViews |-> 0, averageViews |-> 0, lastWeekEmails |-> 0,
   lastWeekOpened |-> 0, lastWeekOpenRate |-> 0]

\* showEmailStats holds no result.
NoReport == [ErrorReport("") EXCEPT !.kind = "none"]

\* getEmailStats over the sheet as read at `today`; the rates are in hundredths
\* of a percent, averageViews in hundredths.
EmailStats(exists, data, today) ==
  IF ~exists THEN ErrorReport("Tracking sheet not found")
  ELSE IF NoData(data) THEN ErrorReport("No tracking data available")
  ELSE
    LET rows == 1..(Len(data) - 1)
        oneWeekAgo == today - WeekDays
        opened == {i \in rows : data[i + 1].opened = "Yes"}
        lastWeek == {i \in rows : InLastWeek(data[i + 1].sendDate, oneWeekAgo)}
        totalEmails == Len(data) - 1
        openedEmails == Cardinality(opened)
        totalViews == TotalViews(data, Len(data) - 1)
        lastWeekEmails == Cardinality(lastWeek)
        lastWeekOpened == Cardinality(lastWeek \cap opened)
    IN [kind |-> "stats", error |-> "",
        totalEmails |-> totalEmails,
        openedEmails |-> openedEmails,
        openRate |-> IF totalEmails > 0 THEN ToFixed2(openedEmails * 100, totalEmails) ELSE 0,
        totalViews |-> totalViews,
        averageViews |-> IF openedEmails > 0 THEN ToFixed2(totalViews, openedEmails) ELSE 0,
        lastWeekEmails |-> lastWeekEmails,
        lastWeekOpened |-> lastWeekOpened,
        lastWeekOpenRate |->
          IF lastWeekEmails > 0 THEN ToFixed2(lastWeekOpened * 100, lastWeekEmails) ELSE 0]

VARIABLES sheetExists, sheet, clock, uuids, hits, opens, batch, mails, report

vars == <<sheetExists, sheet, clock, uuids, hits, opens, batch, mails, report>>

ZeroStats == [processed |-> 0, emailsSent |-> 0, errors |-> 0, skippedNoEmail |-> 0]

\* The locals of a run of main(): its position, the number n of data rows,
\* the loop index i, rowData, the trackingId of generateTrackingPixel, the
\* position k in emailAddresses, successCount and stats.
IdleBatch ==
  [pc |-> "idle", n |-> 0, i |-> 0, row |-> NoRowData, tok |-> NoId, k |-> 0, succ |-> 0,
   stats |-> ZeroStats]

\* The locals of one execution of doGet: its position, trackingId, the index i
\* and currentViews of recordEmailOpen, its `now`, and its response.
IdleHit ==
  [pc |-> "idle", id |-> NoId, i |-> NoRow, cur |-> 0, now |-> NoDate, resp |-> NoResp]

\* doGet has returned resp; its locals are gone.
Done(resp) == [IdleHit EXCEPT !.pc = "done", !.resp = resp]

Init ==
  /\ sheetExists = FALSE
  /\ sheet = <<>>
  /\ clock = 0
  /\ uuids = 0
  /\ hits = [h \in Handlers |-> IdleHit]
  /\ opens = [t \in Tokens |-> 0]
  /\ batch = IdleBatch
  /\ mails = {}
  /\ report = NoReport

\* ------------------------------------------------------ the pixel's URL
\* The query without its action.
TrackingUrlNoAction(trackingId) == <<<<"id", trackingId>>>>

\* The query of `${CONFIG.WEB_APP_URL}?id=${trackingId}&action=open`, as its
\* pairs of key and value.
TrackingUrl(trackingId) == <<<<"id", trackingId>>, <<"action", "open">>>>

\* e.parameter[key] of a request with this query: the first value of the key,
\* or undefined.
ParameterValue(query, key, undefined) ==
  LET at == {p \in 1..Len(query) : query[p][1] = key}
  IN IF at = {} THEN undefined
     ELSE query[CHOOSE p \in at : \A q \in at : p <= q][2]

\* What doGet reads of the request: e.parameter.id and e.parameter.action.
Parameter(query) ==
  [id |-> ParameterValue(query, "id", NoId),
   action |-> ParameterValue(query, "action", NoAction)]

\* ------------------------------------------------------------ the callback
\* The request events e.parameter of the web app: doGet's own catch is reached
\* by none of them (e.parameter is always there, and recordEmailOpen lets no
\* exception out).
Events ==
  {[id |-> id, action |-> a] :
     id \in {NoId, EmptyId, UnknownToken} \cup Tokens, a \in {NoAction, "open", "click"}}

\* The data rows (sheet rows 2..) that carry token t.
RowsOf(t) == {r \in 2..Len(sheet) : sheet[r].token = t}

\* A request that passes doGet's guard for a token whose record is in the sheet;
\* opens[t] counts them per token.
Recorded(e) == IsOpenRequest(e) /\ e.id \in Tokens /\ RowsOf(e.id) # {}

RECURSIVE SumTo(_, _)
SumTo(f, n) == IF n = 0 THEN 0 ELSE f[n] + SumTo(f, n - 1)

HitCount == SumTo(opens, MaxIssue)

\* The tokens that have left in a mail: a UUID reaches the callback from the
\* pixel of a mail, any other id is one that getUuid did not return.
Mailed == {m[1] : m \in mails}

\* doGet up to the call of recordEmailOpen; a request that fails the guard is
\* answered at once.  Executions are anonymous: a request takes the first free one.
DoGet(h, e) ==
  /\ hits[h].pc \in {"idle", "skipped", "done"}
  /\ \A g \in Handlers : g < h => hits[g].pc \notin {"idle", "skipped", "done"}
  /\ e.id \in Tokens => e.id \in Mailed
  /\ Recorded(e) => HitCount < MaxHits
  /\ hits' = [hits EXCEPT ![h] =
       IF IsOpenRequest(e) THEN [IdleHit EXCEPT !.pc = "getSheet", !.id = e.id]
       ELSE [Done(Gif) EXCEPT !.pc = "skipped"]]
  /\ opens' = IF Recorded(e) THEN [opens EXCEPT ![e.id] = @ + 1] ELSE opens
  /\ UNCHANGED <<sheetExists, sheet, clock, uuids, batch, mails, report>>

\* getSheetByName called again and again until the sheet is there.
GetSheetWaiting(h, ok) ==
  /\ hits[h].pc = "getSheet"
  /\ hits' = [hits EXCEPT ![h] =
       IF ~sheetExists THEN @
       ELSE IF ~ok THEN Done(RespAfterStoreError)
       ELSE [@ EXCEPT !.pc = "getValues"]]
  /\ UNCHANGED <<sheetExists, sheet, clock, uuids, opens, batch, mails, report>>

\* recordEmailOpen: getActiveSpreadsheet and getSheetByName.
GetSheet(h, ok) ==
  /\ hits[h].pc = "getSheet"
  /\ hits' = [hits EXCEPT ![h] =
       IF ~ok THEN Done(RespAfterStoreError)
       ELSE IF ~sheetExists THEN Done(Gif)
       ELSE [@ EXCEPT !.pc = "getValues"]]
  /\ UNCHANGED <<sheetExists, sheet, clock, uuids, opens, batch, mails, report>>

\* recordEmailOpen: getDataRange().getValues(), the loop over the snapshot, and
\* the branch on data[i][5]; `now` is read in the first-open branch.
GetValues(h, ok) ==
  /\ hits[h].pc = "getValues"
  /\ hits' = [hits EXCEPT ![h] =
       IF ~ok THEN Done(RespAfterStoreError)
       ELSE LET i == FindRow(sheet, hits[h].id) IN
            IF i = NoRow THEN Done(Gif)
            ELSE IF sheet[i + 1].opened = "No"
                 THEN [@ EXCEPT !.pc = "setOpenDate", !.i = i, !.now = clock]
                 ELSE [@ EXCEPT !.pc = "setViews", !.i = i,
                                !.cur = ViewsOrZero(sheet[i + 1].views)]]
  /\ UNCHANGED <<sheetExists, sheet, clock, uuids, opens, batch, mails, report>>

\* trackingSheet.getRange(i + 1, 5).setValue(now)
SetOpenDate(h, ok) ==
  /\ hits[h].pc = "setOpenDate"
  /\ IF ok
     THEN /\ sheet' = SetOpenDateCell(sheet, hits[h].i + 1, hits[h].now)
          /\ hits' = [hits EXCEPT ![h].pc = "setOpened"]
     ELSE /\ sheet' = sheet
          /\ hits' = [hits EXCEPT ![h] = Done(RespAfterStoreError)]
  /\ UNCHANGED <<sheetExists, clock, uuids, opens, batch, mails, report>>

\* trackingSheet.getRange(i + 1, 6).setValue('Yes'), then doGet's response
SetOpened(h, ok) ==
  /\ hits[h].pc = "setOpened"
  /\ IF ok
     THEN /\ sheet' = SetOpenedCell(sheet, hits[h].i + 1)
          /\ hits' = [hits EXCEPT ![h] = Done(Gif)]
     ELSE /\ sheet' = sheet
          /\ hits' = [hits EXCEPT ![h] = Done(RespAfterStoreError)]
  /\ UNCHANGED <<sheetExists, clock, uuids, opens, batch, mails, report>>

\* trackingSheet.getRange(i + 1, 7).setValue(currentViews + 1), then the response
SetViews(h, ok) ==
  /\ hits[h].pc = "setViews"
  /\ IF ok
     THEN /\ sheet' = SetViewsCell(sheet, hits[h].i + 1, hits[h].cur + 1)
          /\ hits' = [hits EXCEPT ![h] = Done(Gif)]
     ELSE /\ sheet' = sheet
          /\ hits' = [hits EXCEPT ![h] = Done(RespAfterStoreError)]
  /\ UNCHANGED <<sheetExists, clock, uuids, opens, batch, mails, report>>

\* A day passes.
Tick ==
  /\ clock < MaxClock
  /\ clock' = clock + 1
  /\ UNCHANGED <<sheetExists, sheet, uuids, hits, opens, batch, mails, report>>

\* ------------------------------------------------------------ the batch run
\* CONFIG.HEADER_ROW_COUNT
HeaderRowCount == 1

\* `break` in place of `continue`: the loop is left.
ContinueBreaking(b) ==
  [b EXCEPT !.pc = "loop", !.i = b.n + HeaderRowCount, !.row = NoRowData, !.tok = NoId,
            !.k = 0, !.succ = 0]

\* `continue`, or the end of the loop body: on to the next row.
Continue(b) ==
  [b EXCEPT !.pc = "loop", !.i = @ + 1, !.row = NoRowData, !.tok = NoId, !.k = 0,
            !.succ = 0]

\* stats.<counter> += 2
CountTwice(b, counter) == [b EXCEPT !.stats[counter] = @ + 2]

\* stats.<counter>++
Count(b, counter) == [b EXCEPT !.stats[counter] = @ + 1]

\* recordTrackingId without its catch: the exception ends the row in the catch
\* of sendNotificationEmail, which returns false.
RowFailed(b) ==
  [b EXCEPT !.pc = "loop", !.i = @ + 1, !.row = NoRowData, !.tok = NoId, !.k = 0,
            !.succ = 0, !.stats.errors = @ + 1]

\* The end of recordTrackingId, by return or by its catch: generateTrackingPixel
\* builds the pixel and sendNotificationEmail goes on to the recipients.
ToSend(b) == [b EXCEPT !.pc = "send", !.k = 1, !.succ = 0]

\* main() up to the call of processData: getSheetData returns null when the
\* Mystery Order sheet is missing or cannot be read (~ok), else n data rows
\* after the header.
Main(n, ok) ==
  /\ batch.pc \in {"idle", "done"}
  /\ batch' = IF ok /\ n + HeaderRowCount > HeaderRowCount
              THEN [IdleBatch EXCEPT !.pc = "templates", !.n = n]
              ELSE [IdleBatch EXCEPT !.pc = "done"]
  /\ UNCHANGED <<sheetExists, sheet, clock, uuids, hits, opens, mails, report>>

\* The catch of the templates without its `return stats`.
LoadTemplatesContinuing(ok) ==
  /\ batch.pc = "templates"
  /\ batch' = IF ok THEN [batch EXCEPT !.pc = "loop", !.i = HeaderRowCount]
              ELSE [Count(batch, "errors") EXCEPT !.pc = "loop", !.i = HeaderRowCount]
  /\ UNCHANGED <<sheetExists, sheet, clock, uuids, hits, opens, mails, report>>

\* processData: HtmlService.createTemplateFromFile for both templates.
LoadTemplates(ok) ==
  /\ batch.pc = "templates"
  /\ batch' = IF ok THEN [batch EXCEPT !.pc = "loop", !.i = HeaderRowCount]
              ELSE [IdleBatch EXCEPT !.pc = "done", !.stats = Count(batch, "errors").stats]
  /\ UNCHANGED <<sheetExists, sheet, clock, uuids, hits, opens, mails, report>>

\* The pass with stats.errors++ in the branch of an unknown result.
RowSkipsAsErrors(r, tplOk) ==
  /\ batch.pc = "loop"
  /\ batch.i < batch.n + HeaderRowCount
  /\ LET b == Count(batch, "processed") IN
     IF r.cols <= ReportColumn THEN batch' = Continue(b) /\ uuids' = uuids
     ELSE IF r.sellerEmail = <<>>
       THEN batch' = Continue(Count(b, "skippedNoEmail")) /\ uuids' = uuids
     ELSE IF r.result = "" THEN batch' = Continue(b) /\ uuids' = uuids
     ELSE IF ToLowerCase(r.result) \in {"passed", "failed"}
       THEN IF tplOk
            THEN /\ uuids' = uuids + 1
                 /\ batch' = [b EXCEPT !.pc = "rtGetSheet", !.row = r, !.tok = uuids + 1]
            ELSE batch' = Continue(Count(b, "errors")) /\ uuids' = uuids
     ELSE batch' = Continue(Count(b, "errors")) /\ uuids' = uuids
  /\ UNCHANGED <<sheetExists, sheet, clock, hits, opens, mails, report>>

\* One pass of the loop of processData over data[i] = r, up to the call of
\* recordTrackingId: the skips, and sendNotificationEmail's template evaluation
\* (tplOk) and Utilities.getUuid.
Row(r, tplOk) ==
  /\ batch.pc = "loop"
  /\ batch.i < batch.n + HeaderRowCount
  /\ LET b == Count(batch, "processed") IN
     IF r.cols <= ReportColumn THEN batch' = Continue(b) /\ uuids' = uuids
     ELSE IF r.sellerEmail = <<>>
       THEN batch' = Continue(Count(b, "skippedNoEmail")) /\ uuids' = uuids
     ELSE IF r.result = "" THEN batch' = Continue(b) /\ uuids' = uuids
     ELSE IF ToLowerCase(r.result) \in {"passed", "failed"}
       THEN IF tplOk
            THEN /\ uuids' = uuids + 1
                 /\ batch' = [b EXCEPT !.pc = "rtGetSheet", !.row = r, !.tok = uuids + 1]
            ELSE batch' = Continue(Count(b, "errors")) /\ uuids' = uuids
     ELSE batch' = Continue(b) /\ uuids' = uuids
  /\ UNCHANGED <<sheetExists, sheet, clock, hits, opens, mails, report>>

\* The loop of processData is over: processData returns stats, main reports
\* them and returns.
Finish ==
  /\ batch.pc = "loop"
  /\ batch.i >= batch.n + HeaderRowCount
  /\ batch' = [IdleBatch EXCEPT !.pc = "done"]
  /\ UNCHANGED <<sheetExists, sheet, clock, uuids, hits, opens, mails, report>>

\* The mail to the first recipient handed over before the record is appended.
RtGetSheetMailing(ok) ==
  /\ batch.pc = "rtGetSheet"
  /\ batch' = IF ~ok THEN ToSend(batch)
              ELSE IF sheetExists THEN [batch EXCEPT !.pc = "appendRecord"]
              ELSE [batch EXCEPT !.pc = "insertSheet"]
  /\ mails' = mails \cup {<<batch.tok, EmailAddresses(batch.row.sellerEmail)[1]>>}
  /\ UNCHANGED <<sheetExists, sheet, clock, uuids, hits, opens, report>>

\* recordTrackingId: getActiveSpreadsheet and getSheetByName.
RtGetSheet(ok) ==
  /\ batch.pc = "rtGetSheet"
  /\ batch' = IF ~ok THEN ToSend(batch)
              ELSE IF sheetExists THEN [batch EXCEPT !.pc = "appendRecord"]
              ELSE [batch EXCEPT !.pc = "insertSheet"]
  /\ UNCHANGED <<sheetExists, sheet, clock, uuids, hits, opens, mails, report>>

\* recordTrackingId: spreadsheet.insertSheet, which throws when a sheet of that
\* name exists.
RtInsertSheet(ok) ==
  /\ batch.pc = "insertSheet"
  /\ IF ok /\ ~sheetExists
     THEN /\ sheetExists' = TRUE
          /\ sheet' = <<>>
          /\ batch' = [batch EXCEPT !.pc = "appendHeader"]
     ELSE /\ UNCHANGED <<sheetExists, sheet>>
          /\ batch' = ToSend(batch)
  /\ UNCHANGED <<clock, uuids, hits, opens, mails, report>>

\* recordTrackingId: appendRow of the headers.
RtAppendHeader(ok) ==
  /\ batch.pc = "appendHeader"
  /\ IF ok
     THEN /\ sheet' = AppendRow(sheet, HeaderRow)
          /\ batch' = [batch EXCEPT !.pc = "appendRecord"]
     ELSE /\ sheet' = sheet
          /\ batch' = ToSend(batch)
  /\ UNCHANGED <<sheetExists, clock, uuids, hits, opens, mails, report>>

\* recordTrackingId: appendRow of the new tracking record.
RtAppendRecord(ok) ==
  /\ batch.pc = "appendRecord"
  /\ sheet' = IF ok
              THEN AppendRow(sheet, NewRecord(batch.tok, batch.row.sellerEmail,
                                              batch.row.sellerId, clock))
              ELSE sheet
  /\ batch' = ToSend(batch)
  /\ UNCHANGED <<sheetExists, clock, uuids, hits, opens, mails, report>>

\* sendNotificationEmail: one pass of the loop over emailAddresses, and after
\* the last address the return and the counting in processData.  A throw of
\* GmailApp.sendEmail (~ok) is caught by sendNotificationEmail: return false.
SendMail(ok) ==
  /\ batch.pc = "send"
  /\ LET addrs == EmailAddresses(batch.row.sellerEmail)
         email == addrs[batch.k]
         valid == IsValidEmail(email)
         succ == IF valid THEN batch.succ + 1 ELSE batch.succ
     IN IF valid /\ ~ok
        THEN /\ mails' = mails
             /\ batch' = Continue(Count(batch, "errors"))
        ELSE /\ mails' = IF valid THEN mails \cup {<<batch.tok, email>>} ELSE mails
             /\ batch' =
                  IF batch.k < Len(addrs)
                  THEN [batch EXCEPT !.k = @ + 1, !.succ = succ]
                  ELSE Continue(Count(batch, IF succ > 0 THEN "emailsSent" ELSE "errors"))
  /\ UNCHANGED <<sheetExists, sheet, clock, uuids, hits, opens, report>>

\* ----------------------------------------------------- the statistics menu
\* getEmailStats creating the sheet it does not find, as recordTrackingId does.
GetEmailStatsCreating(ok) ==
  /\ report.kind = "none"
  /\ report' = IF ok THEN EmailStats(sheetExists, sheet, clock)
               ELSE ErrorReport("exception")
  /\ sheetExists' = TRUE
  /\ sheet' = IF sheetExists THEN sheet ELSE <<HeaderRow>>
  /\ UNCHANGED <<clock, uuids, hits, opens, batch, mails>>

\* showEmailStats calls getEmailStats: getSheetByName and getValues, the scan,
\* and the result; a throw of the Spreadsheet service (~ok) gives an error result.
GetEmailStats(ok) ==
  /\ report.kind = "none"
  /\ report' = IF ok THEN EmailStats(sheetExists, sheet, clock)
               ELSE ErrorReport("exception")
  /\ UNCHANGED <<sheetExists, sheet, clock, uuids, hits, opens, batch, mails>>

\* showEmailStats logs and shows the message and returns.
ShowEmailStats ==
  /\ report.kind # "none"
  /\ report' = NoReport
  /\ UNCHANGED <<sheetExists, sheet, clock, uuids, hits, opens, batch, mails>>

StatsStep(oks) ==
  \/ \E ok \in oks : GetEmailStats(ok)
  \/ ShowEmailStats

\* ------------------------------------------------------- the specifications
\* The batch run over rows drawn from `rows`; a call of the Spreadsheet service
\* succeeds or throws as `oks` allows, a call of the template or mail service
\* as `sends` allows.
BatchStep(rows, oks, sends) ==
  \/ \E n \in 0..(MaxIssue - uuids), ok \in oks : Main(n, ok)
  \/ \E ok \in sends : LoadTemplates(ok)
  \/ \E r \in rows, tplOk \in sends : Row(r, tplOk)
  \/ Finish
  \/ \E ok \in oks : RtGetSheet(ok)
  \/ \E ok \in oks : RtInsertSheet(ok)
  \/ \E ok \in oks : RtAppendHeader(ok)
  \/ \E ok \in oks : RtAppendRecord(ok)
  \/ \E ok \in sends : SendMail(ok)

\* The steps of recordEmailOpen in the execution h.
HitStep(h, oks) ==
  \/ \E ok \in oks : GetSheet(h, ok)
  \/ \E ok \in oks : GetValues(h, ok)
  \/ \E ok \in oks : SetOpenDate(h, ok)
  \/ \E ok \in oks : SetOpened(h, ok)
  \/ \E ok \in oks : SetViews(h, ok)

Quiet == \A h \in Handlers : hits[h].pc \in {"idle", "skipped", "done"}

\* Concurrent callbacks and a batch run over a Spreadsheet service that works.
Next ==
  \/ \E h \in Handlers, e \in Events : DoGet(h, e)
  \/ \E h \in Handlers : HitStep(h, {TRUE})
  \/ BatchStep(RowInputs, {TRUE}, {TRUE})
  \/ Tick

Spec == Init /\ [][Next]_vars

\* The same with callbacks handled one after another.
NextSeq ==
  \/ \E h \in Handlers, e \in Events : Quiet /\ DoGet(h, e)
  \/ \E h \in Handlers : HitStep(h, {TRUE})
  \/ BatchStep(RowInputs, {TRUE}, {TRUE})
  \/ Tick

SpecSeq == Init /\ [][NextSeq]_vars

\* Concurrent callbacks, a batch run and the statistics menu, all within one
\* day, over a Spreadsheet service of which any call may throw.
NextFail ==
  \/ \E h \in Handlers, e \in Events : DoGet(h, e)
  \/ \E h \in Handlers : HitStep(h, BOOLEAN)
  \/ BatchStep(PlainRows, BOOLEAN, {TRUE})
  \/ StatsStep(BOOLEAN)

SpecFail == Init /\ [][NextFail]_vars

\* Concurrent callbacks, a batch run and the statistics menu over services
\* that work, where an execution that has started goes on: each call of a
\* service returns and the script takes its next step.  Requests, and runs of
\* main and of the statistics menu, come when they come.
NextLive ==
  \/ \E h \in Handlers, e \in Events : DoGet(h, e)
  \/ \E h \in Handlers : HitStep(h, {TRUE})
  \/ BatchStep(PlainRows, {TRUE}, {TRUE})
  \/ StatsStep({TRUE})

Fairness ==
  /\ \A h \in Handlers : WF_vars(HitStep(h, {TRUE}))
  /\ WF_vars(batch.pc \notin {"idle", "done"} /\ BatchStep(PlainRows, {TRUE}, {TRUE}))

SpecLive == Init /\ [][NextLive]_vars /\ Fairness

\* A batch run alone, over a Spreadsheet service of which any call may throw
\* and a template and mail service that work.
NextIssue ==
  \/ BatchStep(RowInputs, BOOLEAN, {TRUE})
  \/ Tick

SpecIssue == Init /\ [][NextIssue]_vars

\* The statistics menu over a tracking sheet as batch runs and callbacks can
\* have left it.  A record was sent on day 0 or 1; it is unopened, or opened
\* with some views.
SendDays == {0, 1}

\* The record of token t after its first open and v further ones.
OpenedRecord(t, sendDate, v) ==
  [NewRecord(t, AddrA, "S1", sendDate) EXCEPT !.openDate = sendDate, !.opened = "Yes",
                                         !.views = v]

\* What the row of token t can hold.
RecordsOf(t) ==
  {NewRecord(t, AddrA, "S1", d) : d \in SendDays}
  \cup {OpenedRecord(t, d, v) : d \in SendDays, v \in 0..MaxViews}

\* Ten records, four of them opened: one with 3 views after the first open,
\* three with none.
TenRecords ==
  <<HeaderRow, OpenedRecord(1, 0, 3), OpenedRecord(2, 0, 0), OpenedRecord(3, 0, 0),
    OpenedRecord(4, 0, 0)>>
  \o [k \in 1..6 |-> NewRecord(k + 4, AddrA, "S1", 0)]

RECURSIVE SheetsOf(_)
\* The sheets of the header row and n records, the record of token t in row t + 1.
SheetsOf(n) ==
  IF n = 0 THEN {<<HeaderRow>>}
  ELSE {Append(s, rec) : s \in SheetsOf(n - 1), rec \in RecordsOf(n)}

\* The sheets: without a row (the header append failed), the header row with
\* up to MaxRecords records, and the ten records.
Sheets == {<<>>, TenRecords} \cup UNION {SheetsOf(n) : n \in 0..MaxRecords}

\* The statistics are asked for a week after the mails went out.
InitStats ==
  /\ sheetExists \in BOOLEAN
  /\ sheet \in (IF sheetExists THEN Sheets ELSE {<<>>})
  /\ clock \in (WeekDays - 1)..(WeekDays + 1)
  /\ uuids = 0
  /\ hits = [h \in Handlers |-> IdleHit]
  /\ opens = [t \in Tokens |-> 0]
  /\ batch = IdleBatch
  /\ mails = {}
  /\ report = NoReport

NextStats == StatsStep({TRUE})

SpecStats == InitStats /\ [][NextStats]_vars

\* A batch run alone, of which any call of a service may throw.
NextBatch ==
  \/ BatchStep(RowInputs, BOOLEAN, BOOLEAN)
  \/ Tick

SpecBatch == Init /\ [][NextBatch]_vars

\* ------------------------------------------------------------- the claims
DataRows == 2..Len(sheet)

Busy(t) == \E h \in Handlers : hits[h].pc \notin {"idle", "skipped", "done"} /\ hits[h].id = t

\* C1: once all K >= 1 callback hits for a recorded token have finished,
\* however their store calls interleaved, the record is opened and its view
\* count is K - 1.
C1_AllHitsCounted ==
  \A t \in Tokens : (opens[t] >= 1 /\ ~Busy(t)) =>
    \A r \in RowsOf(t) : sheet[r].opened = "Yes" /\ sheet[r].views = opens[t] - 1

\* C2: no two executions have both read Opened = 'No' for the same row and both
\* written its Open Date.
C2_OneFirstOpen ==
  \A g, h \in Handlers :
    (g # h /\ hits[g].pc = "setOpened" /\ hits[h].pc = "setOpened") => hits[g].i # hits[h].i

\* C3: with hits handled one after another, after the first hit for a recorded
\* token its record is opened with no views, and after the Nth it is opened with
\* N - 1 views.
C3_NthHit ==
  Quiet => \A t \in Tokens : \A r \in RowsOf(t) :
    /\ opens[t] = 1 => sheet[r].opened = "Yes" /\ sheet[r].views = 0
    /\ opens[t] > 1 => sheet[r].opened = "Yes" /\ sheet[r].views = opens[t] - 1

C3_Witness ==
  Quiet /\ \E t \in Tokens : opens[t] = 3 /\ \E r \in RowsOf(t) : sheet[r].views = 2

\* C4: no step of a hit whose id is the token of no data row changes the
\* tracking sheet, and the hit is answered with the GIF.
C4_UnknownTokenNoOp ==
  [][\A h \in Handlers :
      (hits[h].pc \in {"getSheet", "getValues", "setOpenDate", "setOpened", "setViews"}
         /\ hits'[h] # hits[h] /\ RowsOf(hits[h].id) = {})
      => /\ sheet' = sheet
         /\ sheetExists' = sheetExists
         /\ hits'[h].pc = "done" => hits'[h].resp = Gif]_vars

C4_Witness ==
  \E h \in Handlers :
    hits[h].pc = "getValues" /\ RowsOf(hits[h].id) = {} /\ Len(sheet) >= 2

\* C5: a request whose action is not exactly "open", or whose id is missing or
\* empty, is answered at the guard without a call of recordEmailOpen, and the
\* tracking sheet is as it was.
C5_IgnoredRequest ==
  [][\A h \in Handlers, e \in Events :
      (DoGet(h, e) /\ (e.action # "open" \/ e.id \in {NoId, EmptyId}))
      => /\ sheet' = sheet
         /\ sheetExists' = sheetExists
         /\ hits'[h].pc = "skipped"]_vars

C5_Witness ==
  \E h \in Handlers :
    hits[h].pc = "skipped" /\ \E r \in DataRows : sheet[r].opened = "No" /\ sheet[r].views = 0

\* C6: every answered request got the GIF, also when a call of the Spreadsheet
\* service threw during the hit.
C6_AlwaysGif ==
  \A h \in Handlers : hits[h].pc \in {"skipped", "done"} => hits[h].resp = Gif

\* A hit died between its two first-open writes and was answered.
C6_Witness ==
  /\ Quiet
  /\ \E h \in Handlers : hits[h].pc = "done" /\ hits[h].resp = Gif
  /\ \E r \in DataRows : sheet[r].openDate # NoDate /\ sheet[r].opened = "No"

\* C7: in every state a record's Opened is 'Yes' exactly when its Open Date is
\* set.
C7_OpenedIffOpenDate ==
  \A r \in DataRows : sheet[r].opened = "Yes" <=> sheet[r].openDate # NoDate

\* C8: no step lowers a record's Views, and a step that raises it finds the
\* record opened.
C8_ViewsMonotonic ==
  [][\A r \in DataRows :
      /\ sheet'[r].views >= sheet[r].views
      /\ sheet'[r].views > sheet[r].views => sheet[r].opened = "Yes"]_vars

\* C9: an Open Date once set keeps its value, and the Open Date write of a hit
\* goes to an empty cell.
C9_OpenDateOnce ==
  [][/\ \A r \in DataRows : sheet[r].openDate # NoDate => sheet'[r].openDate = sheet[r].openDate
     /\ \A h \in Handlers :
          (hits[h].pc = "setOpenDate" /\ hits'[h].pc = "setOpened")
          => sheet[hits[h].i + 1].openDate = NoDate]_vars

\* C10: a row whose Opened is 'Yes' is still there, with its token, and still
\* 'Yes' after every step of a callback, of the batch run and of the statistics.
C10_OpenedMonotonic ==
  [][\A r \in 1..Len(sheet) :
      sheet[r].opened = "Yes"
      => /\ Len(sheet') >= r
         /\ sheet'[r].token = sheet[r].token
         /\ sheet'[r].opened = "Yes"]_vars

\* The batch run has just appended a record below a row that is opened.
C10_Witness ==
  /\ batch.pc = "send"
  /\ RowsOf(batch.tok) # {}
  /\ \E r \in DataRows : sheet[r].opened = "Yes" /\ sheet[r].token # batch.tok

\* C11: a record for whose token no callback hit has been handled is unopened,
\* with no views and no Open Date, in every state.
C11_UnhitRecordUntouched ==
  \A r \in DataRows :
    (sheet[r].token \in Tokens /\ opens[sheet[r].token] = 0)
    => sheet[r].opened = "No" /\ sheet[r].views = 0 /\ sheet[r].openDate = NoDate

\* A record without a hit, beside an opened one, when statistics were computed.
C11_Witness ==
  /\ report.kind = "stats"
  /\ \E r1, r2 \in DataRows :
       /\ sheet[r1].token \in Tokens /\ opens[sheet[r1].token] = 0
       /\ sheet[r2].opened = "Yes"

\* C12: the appendRow of recordTrackingId adds one row below the others, with
\* the new token, the Seller Email cell, the seller id, the Send Date of now,
\* no Open Date, Opened 'No' and Views 0, and leaves every other row as it was;
\* no other step of the issue touches a data row.
C12_IssueAppendsOneRecord ==
  [][/\ (batch.pc = "appendRecord" /\ batch' # batch)
        => /\ Len(sheet') = Len(sheet) + 1
           /\ \A r \in 1..Len(sheet) : sheet'[r] = sheet[r]
           /\ RowsOf(batch.tok) = {}
           /\ sheet'[Len(sheet')] =
                [token |-> batch.tok, email |-> batch.row.sellerEmail,
                 sellerId |-> batch.row.sellerId, sendDate |-> clock,
                 openDate |-> NoDate, opened |-> "No", views |-> 0]
     /\ (batch.pc \in {"rtGetSheet", "insertSheet", "appendHeader", "send"}
           /\ batch' # batch)
        => /\ 2..Len(sheet') = DataRows
           /\ \A r \in DataRows : sheet'[r] = sheet[r]]_vars

\* A record has just been appended below a record that is opened.
C12_Witness ==
  /\ batch.pc = "send"
  /\ Len(sheet) >= 3
  /\ sheet[Len(sheet)].token = batch.tok
  /\ sheet[2].opened = "Yes"

\* C13: no two rows of the tracking sheet carry the same Tracking ID.
C13_TokensUnique ==
  \A r1, r2 \in DataRows : sheet[r1].token = sheet[r2].token => r1 = r2

\* Two records, one of them of a row with two recipients that were both mailed.
C13_Witness ==
  /\ Len(sheet) = 3
  /\ \E r \in DataRows :
       /\ sheet[r].email = TwoAddrs
       /\ {<<sheet[r].token, AddrA>>, <<sheet[r].token, AddrB>>} \subseteq mails

\* C15: no step removes a row of the tracking sheet: the sheet gets no shorter
\* and every Tracking ID in it is in it after the step.
C15_RecordsNeverDeleted ==
  [][/\ Len(sheet') >= Len(sheet)
     /\ {sheet[r].token : r \in 1..Len(sheet)} \subseteq {sheet'[r].token : r \in 1..Len(sheet')}]_vars

\* Two records are in the sheet after a callback wrote to the first.
C15_Witness ==
  /\ Len(sheet) = 3
  /\ sheet[2].views >= 1

\* C16: a step of getEmailStats leaves the tracking sheet as it was, rows and
\* existence.
C16_StatsReadOnly ==
  [][report' # report => (sheet' = sheet /\ sheetExists' = sheetExists)]_vars

\* getEmailStats has run over a sheet that holds the header row only.
C16_Witness ==
  /\ sheetExists /\ Len(sheet) = 1
  /\ report.kind = "error" /\ report.error = "No tracking data available"

\* C14: a step of recordTrackingId, failed or not, leads on to the append or
\* to the recipients with the counters as they were; and for a row whose
\* record is not in the sheet, each step of the loop over the recipients mails
\* a valid address, and the last one counts the row as emailsSent when it has
\* a valid address, leaves errors alone then, and goes on to the next row.
C14_AppendFailureStillSends ==
  [][/\ (batch.pc \in {"rtGetSheet", "insertSheet", "appendHeader", "appendRecord"}
           /\ batch' # batch)
        => /\ batch'.pc \in {"insertSheet", "appendHeader", "appendRecord", "send"}
           /\ batch'.stats = batch.stats
           /\ batch'.tok = batch.tok /\ batch'.row = batch.row
     /\ (batch.pc = "send" /\ RowsOf(batch.tok) = {} /\ batch' # batch)
        => LET addrs == EmailAddresses(batch.row.sellerEmail)
               valid == {k \in 1..Len(addrs) : IsValidEmail(addrs[k])}
           IN /\ batch.k \in valid => <<batch.tok, addrs[batch.k]>> \in mails'
              /\ batch.k = Len(addrs) =>
                   /\ \A k \in valid : <<batch.tok, addrs[k]>> \in mails'
                   /\ batch'.pc = "loop" /\ batch'.i = batch.i + 1
                   /\ valid # {} =>
                        /\ batch'.stats.emailsSent = batch.stats.emailsSent + 1
                        /\ batch'.stats.errors = batch.stats.errors]_vars

\* A row with two recipients was mailed to both and counted as sent, and the
\* sheet, which exists, has no record of its token.
C14_Witness ==
  /\ sheetExists
  /\ batch.pc = "loop"
  /\ batch.stats.emailsSent >= 1 /\ batch.stats.errors = 0
  /\ \E t \in Tokens :
       /\ RowsOf(t) = {}
       /\ {<<t, AddrA>>, <<t, AddrB>>} \subseteq mails

\* C18: over a missing sheet, and over a sheet with no row below the header,
\* getEmailStats returns its descriptive error result and no statistics.
C18_NoDataResult ==
  (report.kind # "none" /\ (~sheetExists \/ Len(sheet) <= 1))
  => /\ report.kind = "error"
     /\ report.error = IF sheetExists THEN "No tracking data available"
                       ELSE "Tracking sheet not found"

\* getEmailStats has run without a tracking sheet.
C18_Witness ==
  /\ ~sheetExists
  /\ report.kind = "error" /\ report.error = "Tracking sheet not found"

RECURSIVE SumMaxViews(_)
\* The sum over the rows R of max(Views, 1).
SumMaxViews(R) ==
  IF R = {} THEN 0
  ELSE LET r == CHOOSE x \in R : TRUE
       IN (IF sheet[r].views > 1 THEN sheet[r].views ELSE 1) + SumMaxViews(R \ {r})

\* C19: totalViews is the sum of max(Views, 1) over the records with Opened
\* 'Yes'; the other records add nothing.
C19_TotalViews ==
  report.kind = "stats"
  => report.totalViews = SumMaxViews({r \in DataRows : sheet[r].opened = "Yes"})

\* Statistics over an unopened record, one opened without further views and
\* one opened with several.
C19_Witness ==
  /\ report.kind = "stats"
  /\ \E r \in DataRows : sheet[r].opened = "No"
  /\ \E r \in DataRows : sheet[r].opened = "Yes" /\ sheet[r].views = 0
  /\ \E r \in DataRows : sheet[r].opened = "Yes" /\ sheet[r].views >= 2

\* C20 as stated: over the ten records, 4 opened emails, 7 total views, 1.75
\* average views and an open rate of 40.00%.
C20_ScenarioAsStated ==
  (report.kind = "stats" /\ sheet = TenRecords)
  => /\ report.openedEmails = 4
     /\ report.totalViews = 7
     /\ report.averageViews = 175
     /\ report.openRate = 4000

\* C20, amended: over the ten records, 10 emails, 4 opened, an open rate of
\* 40.00%, 6 total views (3 + 1 + 1 + 1) and 1.50 average views.
C20_ScenarioSixViews ==
  (report.kind = "stats" /\ sheet = TenRecords)
  => /\ report.totalEmails = 10
     /\ report.openedEmails = 4
     /\ report.totalViews = 6
     /\ report.averageViews = 150
     /\ report.openRate = 4000

\* getEmailStats has run over the ten records.
C20_Witness ==
  /\ sheet = TenRecords
  /\ report.kind = "stats"

\* C21: over a sheet with records, totalEmails is their number, openedEmails
\* the number of those with Opened 'Yes', openRate their quotient as a
\* percentage to the nearest hundredth, and averageViews is 0 when none is opened.
C21_Counts ==
  report.kind = "stats"
  => LET opened == {r \in DataRows : sheet[r].opened = "Yes"}
         err == report.openRate * report.totalEmails - 100 * 100 * Cardinality(opened)
     IN /\ report.totalEmails = Len(sheet) - 1
        /\ report.openedEmails = Cardinality(opened)
        /\ 2 * err <= report.totalEmails /\ 2 * err >= 0 - report.totalEmails
        /\ opened = {} => report.averageViews = 0 /\ report.totalViews = 0

\* Statistics over three records of which two are opened: 66.67%.
C21_Witness ==
  /\ report.kind = "stats"
  /\ Len(sheet) = 4
  /\ Cardinality({r \in DataRows : sheet[r].opened = "Yes"}) = 2
  /\ report.openRate = 6667

\* C22: a record counts in lastWeekEmails exactly when it was sent less than
\* 7 days before today, in lastWeekOpened exactly when it is also opened, and
\* lastWeekOpened <= lastWeekEmails <= totalEmails.
C22_LastWeek ==
  report.kind = "stats"
  => LET recent == {r \in DataRows : clock - sheet[r].sendDate < 7}
     IN /\ report.lastWeekEmails = Cardinality(recent)
        /\ report.lastWeekOpened = Cardinality({r \in recent : sheet[r].opened = "Yes"})
        /\ report.lastWeekOpened <= report.lastWeekEmails
        /\ report.lastWeekEmails <= report.totalEmails

\* Statistics on day 7 over an opened record sent on day 0 and one sent on day 1.
C22_Witness ==
  /\ report.kind = "stats"
  /\ clock = 7
  /\ \E r \in DataRows : sheet[r].sendDate = 0 /\ sheet[r].opened = "Yes"
  /\ \E r \in DataRows : sheet[r].sendDate = 1
  /\ report.lastWeekEmails < report.totalEmails

\* The positions of a batch run inside the loop over the rows.
RowPcs == {"loop", "rtGetSheet", "insertSheet", "appendHeader", "appendRecord", "send"}

\* C23: a step inside the loop leads to the loop again, and leaves it only
\* after the last row, with processed the number of data rows; at each return
\* to the head of the loop processed is the number of rows behind it; a send
\* that fails, and a row that ends without a mail, add one to errors.
C23_RowFailuresIsolated ==
  [][(batch.pc \in RowPcs /\ batch' # batch)
     => /\ \/ batch'.pc \in RowPcs /\ batch'.n = batch.n
           \/ /\ batch'.pc = "done" /\ batch.pc = "loop"
              /\ batch.i = batch.n + HeaderRowCount
              /\ batch.stats.processed = batch.n
        /\ batch'.pc = "loop" =>
             /\ batch'.i \in {batch.i, batch.i + 1}
             /\ batch'.stats.processed = batch'.i - HeaderRowCount
        /\ batch.pc = "send" =>
             LET addrs == EmailAddresses(batch.row.sellerEmail) IN
             /\ (IsValidEmail(addrs[batch.k]) /\ <<batch.tok, addrs[batch.k]>> \notin mails')
                => /\ batch'.pc = "loop"
                   /\ batch'.stats.errors = batch.stats.errors + 1
             /\ (batch'.pc = "loop" /\ \A m \in mails' : m[1] # batch.tok)
                => batch'.stats.errors = batch.stats.errors + 1]_vars

\* The first row of a run of two failed after its record was appended, the
\* second was mailed.
C23_Witness ==
  /\ batch.n = 2 /\ batch.pc = "loop"
  /\ batch.stats.processed = 2 /\ batch.stats.errors = 1 /\ batch.stats.emailsSent = 1
  /\ Len(sheet) = 3
  /\ sheet[2].token \notin Mailed /\ sheet[3].token \in Mailed

\* C24: a run that ends at getSheetData or at the templates has sent no mail,
\* added no record and taken no UUID; the loop over the rows starts only after
\* both templates were loaded, with every counter at 0.
C24_FatalBeforeRows ==
  [][/\ (batch.pc \in {"idle", "done"} /\ batch' # batch)
        => /\ batch'.pc \in {"templates", "done"}
           /\ batch'.stats = ZeroStats
           /\ mails' = mails /\ sheet' = sheet /\ sheetExists' = sheetExists
           /\ uuids' = uuids
     /\ (batch.pc = "templates" /\ batch' # batch)
        => /\ \/ batch'.pc = "loop" /\ batch'.stats = ZeroStats
              \/ /\ batch'.pc = "done"
                 /\ batch'.stats = [ZeroStats EXCEPT !.errors = 1]
           /\ mails' = mails /\ sheet' = sheet /\ sheetExists' = sheetExists
           /\ uuids' = uuids]_vars

\* A run has ended at the templates after an earlier run sent a mail.
C24_Witness ==
  /\ batch.pc = "done"
  /\ batch.stats = [ZeroStats EXCEPT !.errors = 1]
  /\ mails # {}

\* C30: the step that ends the loop over the recipients of a row counts the
\* row in emailsSent exactly when a mail of the row went out.
C30_SentIffCounted ==
  [][(batch.pc = "send" /\ batch'.pc = "loop")
     => ((batch'.stats.emailsSent = batch.stats.emailsSent + 1)
         <=> (\E m \in mails' : m[1] = batch.tok))]_vars

\* C25: every mail has a tracking record of its own, with the mail's token and
\* the mail's recipient, and no two mails carry the same token.
C25_RecordPerRecipient ==
  /\ \A m1, m2 \in mails : m1 # m2 => m1[1] # m2[1]
  /\ \A m \in mails : \E r \in RowsOf(m[1]) : sheet[r].email = m[2]

\* C26: when a batch run has finished, every record of the tracking sheet is
\* the record of a token that went out in a mail.
C26_RecordsOfSentMails ==
  batch.pc = "done" => \A r \in DataRows : sheet[r].token \in Mailed

\* C27: in every state of a batch run, wherever it may be cut off, every
\* record is the record of a token that went out in a mail, and no token that
\* the run has not yet taken has a record or a mail.
C27_NoPartialRow ==
  /\ \A r \in DataRows : sheet[r].token \in Mailed
  /\ \A t \in Tokens : t > uuids => (RowsOf(t) = {} /\ t \notin Mailed)

C29_UrlRoundTrip ==
  \A m \in mails :
    LET e == Parameter(TrackingUrl(m[1]))
    IN /\ IsOpenRequest(e)
       /\ e.id = m[1]
       /\ RowsOf(m[1]) # {} => RowsOf(m[1]) = {FindRow(sheet, e.id) + 1}

\* A callback made from the URL of the second token is writing to the second
\* record.
C29_Witness ==
  /\ Len(sheet) = 3
  /\ \E m \in mails, h \in Handlers :
       /\ hits[h].pc = "setOpened"
       /\ hits[h].id = Parameter(TrackingUrl(m[1])).id
       /\ hits[h].i = 2
       /\ sheet[3].token = m[1]

C33_HitFrame ==
  [][\A h \in Handlers :
      (hits[h].pc \in {"getSheet", "getValues", "setOpenDate", "setOpened", "setViews"}
         /\ hits'[h] # hits[h])
      => /\ Len(sheet') = Len(sheet)
         /\ sheetExists' = sheetExists
         /\ \A r \in 1..Len(sheet) :
              IF r \in RowsOf(hits[h].id)
              THEN /\ sheet'[r].token = sheet[r].token
                   /\ sheet'[r].email = sheet[r].email
                   /\ sheet'[r].sellerId = sheet[r].sellerId
                   /\ sheet'[r].sendDate = sheet[r].sendDate
              ELSE sheet'[r] = sheet[r]]_vars

\* A callback for the first token is about to write its views while the batch
\* run has just appended the record of the second.
C33_Witness ==
  /\ Len(sheet) = 3
  /\ batch.pc = "send" /\ sheet[3].token = batch.tok
  /\ \E h \in Handlers :
       hits[h].pc = "setViews" /\ hits[h].i = 1 /\ hits[h].id = sheet[2].token

\* C34 as stated: in every state emailsSent + errors + skippedNoEmail <=
\* processed <= the number of data rows.
C34_CountersAsStated ==
  /\ batch.stats.emailsSent + batch.stats.errors + batch.stats.skippedNoEmail
       <= batch.stats.processed
  /\ batch.stats.processed <= batch.n

\* C34, amended: inside the loop over the rows each step adds at most one to
\* processed, and that when a row is begun, and at most one to the sum of
\* emailsSent, errors and skippedNoEmail, and that when a row is ended; the
\* sum is at most processed and processed at most the number of data rows.  A
\* run that ends at the templates has errors = 1 and processed = 0.
C34_CountersInLoop ==
  [][LET sum(b) == b.stats.emailsSent + b.stats.errors + b.stats.skippedNoEmail
     IN /\ batch'.pc \in RowPcs
           => /\ sum(batch') <= batch'.stats.processed
              /\ batch'.stats.processed <= batch'.n
        /\ (batch.pc \in RowPcs /\ batch'.pc \in RowPcs)
           => /\ batch'.stats.processed - batch.stats.processed
                   = (IF batch.pc = "loop" /\ batch' # batch THEN 1 ELSE 0)
              /\ sum(batch') - sum(batch) \in {0, 1}
              /\ sum(batch') # sum(batch) => batch'.pc = "loop"
              /\ batch'.stats.emailsSent >= batch.stats.emailsSent
              /\ batch'.stats.errors >= batch.stats.errors
              /\ batch'.stats.skippedNoEmail >= batch.stats.skippedNoEmail
        /\ (batch.pc = "templates" /\ batch'.pc = "done")
           => batch'.stats = [ZeroStats EXCEPT !.errors = 1]]_vars

\* A run of two rows is at the end of its loop: one row without an email,
\* one mailed.
C34_Witness ==
  /\ batch.pc = "loop" /\ batch.n = 2
  /\ batch.stats = [ZeroStats EXCEPT !.processed = 2, !.skippedNoEmail = 1,
                                    !.emailsSent = 1]

\* C32: an execution of doGet that has begun recordEmailOpen returns, and a
\* batch run that has begun ends, whatever else runs meanwhile.
C32_Terminates ==
  /\ \A h \in Handlers :
       (hits[h].pc \notin {"idle", "skipped", "done"}) ~> (hits[h].pc = "done")
  /\ (batch.pc \notin {"idle", "done"}) ~> (batch.pc = "done")

\* A callback has returned and a batch run of two rows has ended while
\* another callback is at work.
C32_Witness ==
  /\ batch.pc = "done" /\ uuids = MaxIssue
  /\ \E g, h \in Handlers :
       /\ hits[g].pc = "done" /\ hits[g].resp = Gif
       /\ hits[h].pc = "setViews"

====
